---- MODULE Spec2Model ----
(***************************************************************************)
(* Model of src/src/components/PatientDischarge.tsx: the discharge panel   *)
(* (React component state), the remote store it talks to (the patients and *)
(* consultations tables behind the supabase client) and the notification   *)
(* sink (react-toastify).                                                  *)
(*                                                                         *)
(* Every await of the component is a point where another event can run, so *)
(* each asynchronous function is cut at its awaits: one action per store   *)
(* response, which evaluates the query on the store as it is at that       *)
(* moment and runs the code up to the next await.  A handler reads the     *)
(* component state of the render it was created in, so a handleDischarge   *)
(* call carries the records / selectedRecord it captured at submit time.   *)
(***************************************************************************)
EXTENDS Integers, Sequences, FiniteSets

\* ------------------------------------------------------------------ bounds

\* Number of handleDischarge submissions that pass validation (each issues
\* one store update and, on success, starts one fetchDischargeStats run).
MaxCalls == 1

\* The same number in SpecDischarge, where the count queries of the
\* statistics stay unanswered and overlapping submissions are explored.
MaxRaceCalls == 2

\* The session runs on one of the days 1..MaxDay (what new Date() reads);
\* the rows of the initial store were last updated on day 0 or day 1.
MaxDay == 1

\* ------------------------------------------------------------- characters

\* Strings that the code searches in (patient_name, mrn, searchTerm) are
\* sequences of one-character strings.
toLowerCaseChar(c) ==
    CASE c = "J" -> "j"
      [] c = "A" -> "a"
      [] OTHER -> c

toLowerCase(s) == [i \in 1..Len(s) |-> toLowerCaseChar(s[i])]

\* String.prototype.includes
includes(s, t) ==
    \E i \in 0..(Len(s) - Len(t)) : \A j \in 1..Len(t) : s[i + j] = t[j]

\* ------------------------------------------------------------- the store

\* specialtiesList, cut to its first entries that the store's rows use.
specialtiesList == <<"Neurology", "Hematology">>

Null == "<null>"
NullCount == -1

\* The store when the component mounts.  Table order is insertion order;
\* admission_date / created_at are day numbers.
InitPatients ==
    << [mrn |-> <<"2">>, patient_name |-> <<"A", "l">>, admission_date |-> 1,
        patient_status |-> "Active", specialty |-> "Hematology",
        discharge_date |-> Null, discharge_time |-> Null, discharge_note |-> Null,
        updated_at |-> 1],
       [mrn |-> <<"1">>, patient_name |-> <<"J", "o">>, admission_date |-> 2,
        patient_status |-> "Active", specialty |-> "Neurology",
        discharge_date |-> Null, discharge_time |-> Null, discharge_note |-> Null,
        updated_at |-> 1],
       [mrn |-> <<"3">>, patient_name |-> <<"E", "d">>, admission_date |-> 1,
        patient_status |-> "Discharged", specialty |-> "Neurology",
        discharge_date |-> "d0", discharge_time |-> "t0", discharge_note |-> "",
        updated_at |-> 1],
       [mrn |-> <<"4">>, patient_name |-> <<"A", "l">>, admission_date |-> 0,
        patient_status |-> "Discharged", specialty |-> "Hematology",
        discharge_date |-> "d0", discharge_time |-> "t0", discharge_note |-> "",
        updated_at |-> 0] >>

InitConsultations ==
    << [mrn |-> <<"1">>, patient_name |-> <<"J", "o">>, created_at |-> 1,
        status |-> "Active", consultation_specialty |-> "Hematology",
        requesting_department |-> "ER", updated_at |-> 1],
       [mrn |-> <<"5">>, patient_name |-> <<"E", "d">>, created_at |-> 0,
        status |-> "Completed", consultation_specialty |-> "Hematology",
        requesting_department |-> "ER", updated_at |-> 0] >>

VARIABLES
    patients,          \* store: the patients table
    consultations,     \* store: the consultations table
    clock,             \* the day new Date() reads
    records, selectedRecord, dischargeDate, dischargeTime, dischargeNote,
    searchTerm, selectedSpecialty, dischargeStats, loading,
    fetch,             \* the fetchActiveRecords call made on mount
    runs,              \* the fetchDischargeStats calls, in start order
    calls,             \* the handleDischarge calls that issued an update
    toast              \* notifications raised by the last step

vars == <<patients, consultations, clock, records, selectedRecord, dischargeDate,
          dischargeTime, dischargeNote, searchTerm, selectedSpecialty,
          dischargeStats, loading, fetch, runs, calls, toast>>

storeVars == <<patients, consultations, clock>>
formVars == <<selectedRecord, dischargeDate, dischargeTime, dischargeNote>>
filterVars == <<searchTerm, selectedSpecialty>>

\* ---------------------------------------------------------- store queries

RECURSIVE InsertDesc(_, _, _)
InsertDesc(sorted, r, f) ==
    IF sorted = <<>> THEN <<r>>
    ELSE IF r[f] > Head(sorted)[f] THEN <<r>> \o sorted
    ELSE <<Head(sorted)>> \o InsertDesc(Tail(sorted), r, f)

\* .order(f, { ascending: false })
RECURSIVE OrderDesc(_, _)
OrderDesc(rows, f) ==
    IF rows = <<>> THEN <<>>
    ELSE InsertDesc(OrderDesc(SubSeq(rows, 1, Len(rows) - 1), f), rows[Len(rows)], f)

IsActivePatient(r) == r.patient_status = "Active"
IsActiveConsultation(r) == r.status = "Active"

SelectActivePatients ==
    OrderDesc(SelectSeq(patients, IsActivePatient), "admission_date")

SelectActiveConsultations ==
    OrderDesc(SelectSeq(consultations, IsActiveConsultation), "created_at")

\* updated_at within [today T00:00:00, today T23:59:59]
InDayWindow(t, today) == t >= today /\ t <= today

CountDischargedPatients(specialty, today) ==
    Cardinality({i \in DOMAIN patients :
        /\ patients[i].specialty = specialty
        /\ patients[i].patient_status = "Discharged"
        /\ InDayWindow(patients[i].updated_at, today)})

CountCompletedConsultations(specialty, today) ==
    Cardinality({i \in DOMAIN consultations :
        /\ consultations[i].consultation_specialty = specialty
        /\ consultations[i].status = "Completed"
        /\ InDayWindow(consultations[i].updated_at, today)})

\* .update(patch).eq('mrn', mrn): every row of the table with that mrn
\* takes the patch's fields.
ApplyPatch(row, patch) ==
    [f \in DOMAIN row |-> IF f \in DOMAIN patch THEN patch[f] ELSE row[f]]

UpdateTable(table, mrn, patch) ==
    [i \in DOMAIN table |->
        IF table[i].mrn = mrn THEN ApplyPatch(table[i], patch) ELSE table[i]]

\* --------------------------------------------------------- the component

IsAdmission(record) == "specialty" \in DOMAIN record

matchesSearch(record) ==
    \/ includes(toLowerCase(record.patient_name), toLowerCase(searchTerm))
    \/ includes(record.mrn, searchTerm)

matchesSpecialty(record) ==
    \/ selectedSpecialty = ""
    \/ IF IsAdmission(record) THEN record.specialty = selectedSpecialty
       ELSE record.consultation_specialty = selectedSpecialty

KeepFiltered(record) == matchesSearch(record) /\ matchesSpecialty(record)

filteredRecords == SelectSeq(records, KeepFiltered)

Range(seq) == {seq[i] : i \in DOMAIN seq}

\* A fetchDischargeStats call as it stands right after it was made: today
\* is read, and every specialty's task awaits its patients count.
NewRun ==
    [today |-> clock,
     state |-> "pending",
     tasks |-> [k \in DOMAIN specialtiesList |->
                  [pc |-> "patients",
                   dischargedPatientsCount |-> NullCount,
                   patientsError |-> FALSE,
                   completedConsultationsCount |-> NullCount,
                   consultationsError |-> FALSE]]]

Init ==
    /\ patients = InitPatients
    /\ consultations = InitConsultations
    /\ clock \in 1..MaxDay
    /\ records = <<>>
    /\ selectedRecord = <<>>
    /\ dischargeDate = ""
    /\ dischargeTime = ""
    /\ dischargeNote = ""
    /\ searchTerm = <<>>
    /\ selectedSpecialty = ""
    /\ dischargeStats = <<>>
    /\ loading = TRUE
    /\ fetch = [pc |-> "patients", patientsData |-> <<>>, patientsError |-> FALSE,
                consultationsError |-> FALSE]
    /\ runs = <<NewRun>>
    /\ calls = <<>>
    /\ toast = <<>>

\* ------------------------------------------------- fetchActiveRecords

\* First await: the active admissions arrive (data is null on error).
FetchPatientsResponse(ok) ==
    /\ fetch.pc = "patients"
    /\ fetch' = [fetch EXCEPT !.pc = "consultations",
                              !.patientsData = IF ok THEN SelectActivePatients ELSE <<>>,
                              !.patientsError = ~ok]
    /\ toast' = <<>>
    /\ UNCHANGED <<storeVars, records, formVars, filterVars, dischargeStats,
                   loading, runs, calls>>

FetchThrowsConsultationsOnly(patientsError, consultationsError) ==
    consultationsError

\* if (patientsError) throw ...; if (consultationsError) throw ...
FetchThrows(patientsError, consultationsError) ==
    patientsError \/ consultationsError

\* Second await: the active consultations arrive; then the rest of the
\* function runs: throw or setRecords, catch, finally.
FetchConsultationsResponse(ok) ==
    /\ fetch.pc = "consultations"
    /\ LET consultationsData == IF ok THEN SelectActiveConsultations ELSE <<>>
       IN  IF FetchThrows(fetch.patientsError, ~ok)
           THEN /\ toast' = <<"Failed to fetch active records">>
                /\ UNCHANGED records
           ELSE /\ records' = fetch.patientsData \o consultationsData
                /\ toast' = <<>>
    /\ loading' = FALSE
    /\ fetch' = [fetch EXCEPT !.pc = "done", !.consultationsError = ~ok]
    /\ UNCHANGED <<storeVars, formVars, filterVars, dischargeStats, runs, calls>>

\* ------------------------------------------------- fetchDischargeStats

\* count || 0
OrZero(count) == IF count = NullCount \/ count = 0 THEN 0 ELSE count

\* A task of a run that Promise.all has already rejected: what it reads
\* from the store is never used, only how far it has got is kept.
Settled(pc) ==
    [pc |-> pc, dischargedPatientsCount |-> NullCount, patientsError |-> FALSE,
     completedConsultationsCount |-> NullCount, consultationsError |-> FALSE]

\* First await of one specialty's task: the discharged-patients count.
StatsPatientsCount(r, k, ok) ==
    /\ runs[r].tasks[k].pc = "patients"
    /\ runs' = [runs EXCEPT ![r].tasks[k] =
                  IF runs[r].state = "pending"
                  THEN [@ EXCEPT !.pc = "consultations",
                                 !.dischargedPatientsCount =
                                     IF ok THEN CountDischargedPatients(
                                                    specialtiesList[k], runs[r].today)
                                     ELSE NullCount,
                                 !.patientsError = ~ok]
                  ELSE Settled("consultations")]
    /\ toast' = <<>>
    /\ UNCHANGED <<storeVars, records, formVars, filterVars, dischargeStats,
                   loading, fetch, calls>>

TaskThrowsPatientsOnly(patientsError, consultationsError) ==
    patientsError

\* if (patientsError) throw ...; if (consultationsError) throw ...
TaskThrows(patientsError, consultationsError) ==
    patientsError \/ consultationsError

HasDischargesOfBothKinds(stat) ==
    stat.dischargedToday.admissions > 0 /\ stat.dischargedToday.consultations > 0

\* stat.dischargedToday.admissions > 0 || stat.dischargedToday.consultations > 0
HasDischarges(stat) ==
    stat.dischargedToday.admissions > 0 \/ stat.dischargedToday.consultations > 0

\* The value a specialty's task returns.
TaskResult(k, task) ==
    [specialty |-> specialtiesList[k],
     dischargedToday |->
        [admissions |-> OrZero(task.dischargedPatientsCount),
         consultations |-> OrZero(task.completedConsultationsCount)]]

\* Second await of one specialty's task: the completed-consultations count.
\* The task then throws or returns; Promise.all rejects with the first task
\* that throws (catch: one toast) and resolves with the last task that
\* returns (setDischargeStats); a task that settles after the run was
\* rejected has no effect.
StatsConsultationsCount(r, k, ok) ==
    /\ runs[r].tasks[k].pc = "consultations"
    /\ LET old == runs[r].tasks[k]
           throws == TaskThrows(old.patientsError, ~ok)
           task == [old EXCEPT !.pc = IF throws THEN "rejected" ELSE "fulfilled",
                               !.completedConsultationsCount =
                                   IF ok THEN CountCompletedConsultations(
                                                  specialtiesList[k], runs[r].today)
                                   ELSE NullCount,
                               !.consultationsError = ~ok]
           tasks == [runs[r].tasks EXCEPT ![k] = task]
           stats == [j \in DOMAIN tasks |-> TaskResult(j, tasks[j])]
           late == [j \in DOMAIN tasks |-> Settled(tasks[j].pc)]
       IN  CASE runs[r].state = "pending" /\ throws ->
                  /\ runs' = [runs EXCEPT ![r].tasks = late, ![r].state = "failed"]
                  /\ toast' = <<"Failed to fetch discharge statistics">>
                  /\ UNCHANGED dischargeStats
             [] runs[r].state = "pending" /\ ~throws
                  /\ \A j \in DOMAIN tasks : tasks[j].pc = "fulfilled" ->
                  /\ runs' = [runs EXCEPT ![r].tasks = tasks, ![r].state = "done"]
                  /\ dischargeStats' = SelectSeq(stats, HasDischarges)
                  /\ toast' = <<>>
             [] runs[r].state = "pending" ->
                  /\ runs' = [runs EXCEPT ![r].tasks = tasks]
                  /\ toast' = <<>>
                  /\ UNCHANGED dischargeStats
             [] OTHER ->
                  /\ runs' = [runs EXCEPT ![r].tasks = late]
                  /\ toast' = <<>>
                  /\ UNCHANGED dischargeStats
    /\ UNCHANGED <<storeVars, records, formVars, filterVars, loading, fetch, calls>>

\* ------------------------------------------------------------ the page

SearchTerms == {<<>>, <<"j">>}
Dates == {"", "d1"}
Times == {"", "t1"}
Notes == {"", "stable"}

\* The page is rendered once loading is false; the discharge form is
\* rendered while a record is selected, its note field for an admission.
SetSearchTerm(v) ==
    /\ ~loading
    /\ v # searchTerm
    /\ searchTerm' = v
    /\ toast' = <<>>
    /\ UNCHANGED <<storeVars, records, formVars, selectedSpecialty, dischargeStats,
                   loading, fetch, runs, calls>>

SetSelectedSpecialty(v) ==
    /\ ~loading
    /\ v # selectedSpecialty
    /\ selectedSpecialty' = v
    /\ toast' = <<>>
    /\ UNCHANGED <<storeVars, records, formVars, searchTerm, dischargeStats,
                   loading, fetch, runs, calls>>

\* onClick of a row of the rendered list
SetSelectedRecord(i) ==
    /\ ~loading
    /\ i \in DOMAIN filteredRecords
    /\ selectedRecord' = <<filteredRecords[i]>>
    /\ toast' = <<>>
    /\ UNCHANGED <<storeVars, records, dischargeDate, dischargeTime, dischargeNote,
                   filterVars, dischargeStats, loading, fetch, runs, calls>>

SetDischargeDate(v) ==
    /\ ~loading /\ selectedRecord # <<>>
    /\ v # dischargeDate
    /\ dischargeDate' = v
    /\ toast' = <<>>
    /\ UNCHANGED <<storeVars, records, selectedRecord, dischargeTime, dischargeNote,
                   filterVars, dischargeStats, loading, fetch, runs, calls>>

SetDischargeTime(v) ==
    /\ ~loading /\ selectedRecord # <<>>
    /\ v # dischargeTime
    /\ dischargeTime' = v
    /\ toast' = <<>>
    /\ UNCHANGED <<storeVars, records, selectedRecord, dischargeDate, dischargeNote,
                   filterVars, dischargeStats, loading, fetch, runs, calls>>

SetDischargeNote(v) ==
    /\ ~loading /\ selectedRecord # <<>>
    /\ IsAdmission(selectedRecord[1])
    /\ v # dischargeNote
    /\ dischargeNote' = v
    /\ toast' = <<>>
    /\ UNCHANGED <<storeVars, records, selectedRecord, dischargeDate, dischargeTime,
                   filterVars, dischargeStats, loading, fetch, runs, calls>>

\* ---------------------------------------------------- handleDischarge

MissingRequiredButTime(sel, date, time) == sel = <<>> \/ date = ""

\* !selectedRecord || !dischargeDate || !dischargeTime
MissingRequired(sel, date, time) == sel = <<>> \/ date = "" \/ time = ""

DischargeUpdateWithNote(sel, date, time, note, now) ==
    IF IsAdmission(sel)
    THEN [table |-> "patients",
          patch |-> [patient_status |-> "Discharged",
                     discharge_date |-> date,
                     discharge_time |-> time,
                     discharge_note |-> note,
                     updated_at |-> now],
          mrn |-> sel.mrn]
    ELSE [table |-> "consultations",
          patch |-> [status |-> "Completed", discharge_note |-> note,
                     updated_at |-> now],
          mrn |-> sel.mrn]

\* The update handleDischarge sends for the selected record.
DischargeUpdate(sel, date, time, note, now) ==
    IF IsAdmission(sel)
    THEN [table |-> "patients",
          patch |-> [patient_status |-> "Discharged",
                     discharge_date |-> date,
                     discharge_time |-> time,
                     discharge_note |-> note,
                     updated_at |-> now],
          mrn |-> sel.mrn]
    ELSE [table |-> "consultations",
          patch |-> [status |-> "Completed", updated_at |-> now],
          mrn |-> sel.mrn]

\* The form's submit handler up to its await: the validation, then the
\* update is sent.  The call keeps the state of the render it runs in.
HandleDischargeWithin(limit) ==
    /\ ~loading
    /\ IF MissingRequired(selectedRecord, dischargeDate, dischargeTime)
       THEN /\ toast' = <<"Please fill in all required fields">>
            /\ UNCHANGED calls
       ELSE /\ Len(calls) < limit
            /\ calls' = Append(calls,
                  [pc |-> "sent",
                   update |-> DischargeUpdate(selectedRecord[1], dischargeDate,
                                              dischargeTime, dischargeNote, clock),
                   selectedRecord |-> selectedRecord[1],
                   records |-> records])
            /\ toast' = <<>>
    /\ UNCHANGED <<storeVars, records, formVars, filterVars, dischargeStats,
                   loading, fetch, runs>>

HandleDischarge == HandleDischargeWithin(MaxCalls)

\* The store executes (or refuses) the update of call c.
StoreUpdate(c, ok) ==
    /\ calls[c].pc = "sent"
    /\ LET u == calls[c].update
       IN  IF ok
           THEN /\ calls' = [calls EXCEPT ![c].pc = "applied"]
                /\ IF u.table = "patients"
                   THEN /\ patients' = UpdateTable(patients, u.mrn, u.patch)
                        /\ UNCHANGED consultations
                   ELSE /\ consultations' = UpdateTable(consultations, u.mrn, u.patch)
                        /\ UNCHANGED patients
           ELSE /\ calls' = [calls EXCEPT ![c].pc = "error"]
                /\ UNCHANGED <<patients, consultations>>
    /\ toast' = <<>>
    /\ UNCHANGED <<clock, records, formVars, filterVars, dischargeStats, loading,
                   fetch, runs>>

\* records.filter(record => record.mrn !== selectedRecord.mrn)
RecordsAfterDischarge(recs, sel) ==
    LET Keep(record) == record.mrn # sel.mrn
    IN  SelectSeq(recs, Keep)

ErrorIgnored(pc) == FALSE

\* if (error) throw error
UpdateThrows(pc) == pc = "error"

\* The rest of handleDischarge once the update's response is back.
DischargeResponse(c) ==
    /\ calls[c].pc \in {"applied", "error"}
    /\ IF ~UpdateThrows(calls[c].pc)
       THEN /\ toast' = <<"Record discharged successfully">>
            /\ records' = RecordsAfterDischarge(calls[c].records, calls[c].selectedRecord)
            /\ selectedRecord' = <<>>
            /\ dischargeDate' = ""
            /\ dischargeTime' = ""
            /\ dischargeNote' = ""
            /\ runs' = Append(runs, NewRun)
            /\ calls' = [calls EXCEPT ![c].pc = "done", ![c].records = <<>>]
       ELSE /\ toast' = <<"Failed to discharge record">>
            /\ calls' = [calls EXCEPT ![c].pc = "failed", ![c].records = <<>>]
            /\ UNCHANGED <<records, formVars, runs>>
    /\ UNCHANGED <<storeVars, filterVars, dischargeStats, loading, fetch>>

\* ------------------------------------------------------- specification

Next ==
    \/ \E ok \in BOOLEAN : FetchPatientsResponse(ok)
    \/ \E ok \in BOOLEAN : FetchConsultationsResponse(ok)
    \/ \E r \in DOMAIN runs, k \in DOMAIN specialtiesList, ok \in BOOLEAN :
          StatsPatientsCount(r, k, ok)
    \/ \E r \in DOMAIN runs, k \in DOMAIN specialtiesList, ok \in BOOLEAN :
          StatsConsultationsCount(r, k, ok)
    \/ \E v \in SearchTerms : SetSearchTerm(v)
    \/ \E v \in {""} \cup Range(specialtiesList) : SetSelectedSpecialty(v)
    \/ \E i \in 1..Len(records) : SetSelectedRecord(i)
    \/ \E v \in Dates : SetDischargeDate(v)
    \/ \E v \in Times : SetDischargeTime(v)
    \/ \E v \in Notes : SetDischargeNote(v)
    \/ HandleDischarge
    \/ \E c \in DOMAIN calls, ok \in BOOLEAN : StoreUpdate(c, ok)
    \/ \E c \in DOMAIN calls : DischargeResponse(c)

Spec == Init /\ [][Next]_vars

\* The discharge path alone: the count queries of the statistics runs are
\* never answered, and more submissions may overlap.
NextDischarge ==
    \/ \E ok \in BOOLEAN : FetchPatientsResponse(ok)
    \/ \E ok \in BOOLEAN : FetchConsultationsResponse(ok)
    \/ \E v \in SearchTerms : SetSearchTerm(v)
    \/ \E v \in {""} \cup Range(specialtiesList) : SetSelectedSpecialty(v)
    \/ \E i \in 1..Len(records) : SetSelectedRecord(i)
    \/ \E v \in Dates : SetDischargeDate(v)
    \/ \E v \in Times : SetDischargeTime(v)
    \/ \E v \in Notes : SetDischargeNote(v)
    \/ HandleDischargeWithin(MaxRaceCalls)
    \/ \E c \in DOMAIN calls, ok \in BOOLEAN : StoreUpdate(c, ok)
    \/ \E c \in DOMAIN calls : DischargeResponse(c)

SpecDischarge == Init /\ [][NextDischarge]_vars

\* ----------------------------------------------------------- properties

\* C1: once a handleDischarge call for the record with MRN M has completed
\* successfully, no record with MRN M is in records, nor in filteredRecords,
\* in any later state.
C1_DischargedAbsent ==
    \A c \in DOMAIN calls :
        calls[c].pc = "done" =>
            /\ \A i \in DOMAIN records :
                  records[i].mrn # calls[c].selectedRecord.mrn
            /\ \A i \in DOMAIN filteredRecords :
                  filteredRecords[i].mrn # calls[c].selectedRecord.mrn

\* C2: a submission that passes the preconditions issues exactly one update,
\* keyed by the selected record's MRN: for an admission on the patients table
\* with status Discharged, the form's date, time and note and a fresh
\* updated_at; for a consultation on the consultations table with status
\* Completed and a fresh updated_at only.
C2_UpdateByKind ==
    [][(HandleDischarge
          /\ selectedRecord # <<>> /\ dischargeDate # "" /\ dischargeTime # "")
       => /\ Len(calls') = Len(calls) + 1
          /\ SubSeq(calls', 1, Len(calls)) = calls
          /\ UNCHANGED <<patients, consultations>>
          /\ LET call == calls'[Len(calls')]
                 sel == selectedRecord[1]
             IN  /\ call.pc = "sent"
                 /\ call.update.mrn = sel.mrn
                 /\ "admission_date" \in DOMAIN sel =>
                       /\ call.update.table = "patients"
                       /\ call.update.patch =
                             [patient_status |-> "Discharged",
                              discharge_date |-> dischargeDate,
                              discharge_time |-> dischargeTime,
                              discharge_note |-> dischargeNote,
                              updated_at |-> clock]
                 /\ "requesting_department" \in DOMAIN sel =>
                       /\ call.update.table = "consultations"
                       /\ DOMAIN call.update.patch = {"status", "updated_at"}
                       /\ call.update.patch.status = "Completed"
                       /\ call.update.patch.updated_at = clock]_vars

C2_Witness ==
    \E c \in DOMAIN calls :
        /\ calls[c].pc = "sent"
        /\ "requesting_department" \in DOMAIN calls[c].selectedRecord
        /\ dischargeNote = "stable"

\* C3: this workflow changes a record's status only from Active to Discharged
\* (admissions) or from Active to Completed (consultations), an admission's
\* discharge fields are unset as long as it is Active, and the store never
\* applies an update of handleDischarge to a record whose status is already
\* Discharged or Completed.
C3_OnlyActiveUpdated ==
    [][/\ \A i \in DOMAIN patients :
             /\ patients'[i].patient_status # patients[i].patient_status =>
                   /\ patients[i].patient_status = "Active"
                   /\ patients'[i].patient_status = "Discharged"
             /\ patients'[i].patient_status = "Active" =>
                   /\ patients'[i].discharge_date = Null
                   /\ patients'[i].discharge_time = Null
                   /\ patients'[i].discharge_note = Null
       /\ \A i \in DOMAIN consultations :
             consultations'[i].status # consultations[i].status =>
                 /\ consultations[i].status = "Active"
                 /\ consultations'[i].status = "Completed"
       /\ \A c \in DOMAIN calls :
             (calls[c].pc = "sent" /\ calls'[c].pc = "applied") =>
                 LET u == calls[c].update
                 IN  IF u.table = "patients"
                     THEN \A i \in DOMAIN patients :
                             patients[i].mrn = u.mrn =>
                                 patients[i].patient_status = "Active"
                     ELSE \A i \in DOMAIN consultations :
                             consultations[i].mrn = u.mrn =>
                                 consultations[i].status = "Active"]_vars

\* C4: when the update of a handleDischarge call has failed, the handler
\* raises the failure notification and nothing else: records, the selection,
\* the form fields, the statistics and the statistics runs are left as they
\* are.
C4_FailureMutatesNothing ==
    [][\A c \in DOMAIN calls :
          (calls[c].pc = "error" /\ calls'[c].pc # "error") =>
              /\ toast' = <<"Failed to discharge record">>
              /\ calls'[c].pc = "failed"
              /\ UNCHANGED <<records, selectedRecord, dischargeDate, dischargeTime,
                             dischargeNote, dischargeStats, runs>>]_vars

C4_Witness ==
    \E c \in DOMAIN calls :
        /\ calls[c].pc = "failed"
        /\ toast = <<"Failed to discharge record">>
        /\ selectedRecord = <<calls[c].selectedRecord>>
        /\ dischargeDate # ""
        /\ \E i \in DOMAIN records : records[i] = calls[c].selectedRecord

\* C5: a submission with no record selected, or an empty date, or an empty
\* time issues no update, raises the validation notification and changes
\* nothing else.
C5_InvalidSubmission ==
    [][(HandleDischarge
          /\ (selectedRecord = <<>> \/ dischargeDate = "" \/ dischargeTime = ""))
       => /\ toast' = <<"Please fill in all required fields">>
          /\ UNCHANGED <<calls, patients, consultations, records, selectedRecord,
                         dischargeDate, dischargeTime, dischargeNote,
                         dischargeStats, runs>>]_vars

\* a submission right after a successful discharge cleared the selection
C5_Witness ==
    /\ toast = <<"Please fill in all required fields">>
    /\ selectedRecord = <<>>
    /\ \E c \in DOMAIN calls : calls[c].pc = "done"

\* C6: fetchActiveRecords is all or nothing.  When it finishes after a failed
\* fetch, records is empty (and stays so) and one failure notification is
\* raised; when both fetches succeeded, records is the active admissions
\* followed by the active consultations; either way loading is cleared, and
\* until then only the store's answer is awaited.
C6_FetchAllOrNothing ==
    /\ [](/\ fetch.pc = "patients" =>
                (loading /\ ENABLED (\E ok \in BOOLEAN : FetchPatientsResponse(ok)))
          /\ fetch.pc = "consultations" =>
                (loading /\ ENABLED (\E ok \in BOOLEAN : FetchConsultationsResponse(ok)))
          /\ fetch.pc = "done" => ~loading)
    /\ [][/\ fetch.pc = "done" => fetch'.pc = "done"
          /\ (fetch'.pc = "done"
                /\ (fetch'.patientsError \/ fetch'.consultationsError)) =>
                /\ records' = <<>>
                /\ fetch.pc # "done" => toast' = <<"Failed to fetch active records">>
          /\ (fetch.pc # "done" /\ fetch'.pc = "done"
                /\ ~fetch'.patientsError /\ ~fetch'.consultationsError) =>
                LET admissions == {patients[i] : i \in
                                     {j \in DOMAIN patients :
                                         patients[j].patient_status = "Active"}}
                    consults == {consultations[i] : i \in
                                     {j \in DOMAIN consultations :
                                         consultations[j].status = "Active"}}
                IN  /\ Len(records') = Cardinality(admissions) + Cardinality(consults)
                    /\ \A i \in 1..Len(records') :
                          IF i <= Cardinality(admissions)
                          THEN records'[i] \in admissions
                          ELSE records'[i] \in consults
                    /\ admissions \cup consults = Range(records')
                    /\ toast' = <<>>]_vars

\* one fetch failed, the other returned rows
C6_Witness ==
    /\ fetch.pc = "done"
    /\ fetch.patientsError /\ ~fetch.consultationsError
    /\ records = <<>>
    /\ ~loading

\* C7: a fetchDischargeStats run in which a count query failed produces no
\* output: the run never completes, the step that rejects it leaves
\* dischargeStats as it is and raises one failure notification, and whatever
\* its other tasks do afterwards changes nothing and raises nothing.
C7_StatsAllOrNothing ==
    [][\A r \in DOMAIN runs :
          /\ (runs[r].state = "pending" /\ runs'[r].state = "failed") =>
                /\ UNCHANGED dischargeStats
                /\ toast' = <<"Failed to fetch discharge statistics">>
          /\ (runs[r].state = "failed") =>
                /\ runs'[r].state = "failed"
                /\ runs'[r] # runs[r] => (UNCHANGED dischargeStats /\ toast' = <<>>)
          /\ (runs'[r].state = "done") =>
                \A k \in DOMAIN runs'[r].tasks :
                    /\ ~runs'[r].tasks[k].patientsError
                    /\ ~runs'[r].tasks[k].consultationsError
          /\ (\E k \in DOMAIN runs'[r].tasks :
                 runs'[r].tasks[k].pc = "rejected") => runs'[r].state = "failed"]_vars

\* a run rejected while statistics were displayed, all of its tasks having
\* failed
C7_Witness ==
    \E r \in DOMAIN runs :
        /\ runs[r].state = "failed"
        /\ \A k \in DOMAIN runs[r].tasks : runs[r].tasks[k].pc = "rejected"
        /\ dischargeStats # <<>>

\* C8: when a fetchDischargeStats run completes, dischargeStats holds, in the
\* order of specialtiesList, one entry for exactly the specialties with a
\* count above zero, each with both counts as the store returned them.
C8_StatsOutput ==
    [][\A r \in DOMAIN runs :
          (runs[r].state = "pending" /\ runs'[r].state = "done") =>
              LET tasks == runs'[r].tasks
                  shown == {k \in DOMAIN specialtiesList :
                               \/ tasks[k].dischargedPatientsCount > 0
                               \/ tasks[k].completedConsultationsCount > 0}
              IN  /\ Len(dischargeStats') = Cardinality(shown)
                  /\ \A k \in shown :
                        \E i \in DOMAIN dischargeStats' :
                            dischargeStats'[i] =
                                [specialty |-> specialtiesList[k],
                                 dischargedToday |->
                                    [admissions |-> tasks[k].dischargedPatientsCount,
                                     consultations |->
                                        tasks[k].completedConsultationsCount]]
                  /\ \A i, j \in DOMAIN dischargeStats' :
                        i < j =>
                            \E k, l \in shown :
                                /\ k < l
                                /\ dischargeStats'[i].specialty = specialtiesList[k]
                                /\ dischargeStats'[j].specialty = specialtiesList[l]]_vars

\* one specialty shown with a zero count, the other left out
C8_Witness ==
    /\ \E r \in DOMAIN runs : runs[r].state = "done"
    /\ Len(dischargeStats) = 1
    /\ dischargeStats[1].dischargedToday.admissions > 0
    /\ dischargeStats[1].dischargedToday.consultations = 0

\* C9: once every fetchDischargeStats run has completed, dischargeStats is
\* the result of the run that was started last.
C9_LastRunWins ==
    (Len(runs) >= 2 /\ \A r \in DOMAIN runs : runs[r].state = "done") =>
        LET last == runs[Len(runs)]
            stats == [k \in DOMAIN last.tasks |-> TaskResult(k, last.tasks[k])]
        IN  dischargeStats = SelectSeq(stats, HasDischarges)

\* C10: a successful handleDischarge removes from records only the record it
\* discharged: every other record of the list that is still Active in the
\* store stays.
C10_OnlyDischargedRemoved ==
    [][\A c \in DOMAIN calls :
          (calls[c].pc = "applied" /\ calls'[c].pc = "done") =>
              \A i \in DOMAIN records :
                  (/\ records[i] # calls[c].selectedRecord
                   /\ \/ \E j \in DOMAIN patients :
                            /\ "admission_date" \in DOMAIN records[i]
                            /\ patients[j].mrn = records[i].mrn
                            /\ patients[j].patient_status = "Active"
                      \/ \E j \in DOMAIN consultations :
                            /\ "requesting_department" \in DOMAIN records[i]
                            /\ consultations[j].mrn = records[i].mrn
                            /\ consultations[j].status = "Active")
                  => \E j \in DOMAIN records' : records'[j] = records[i]]_vars

====
